---- MODULE Spec2Model ----
\* Retrieval pipeline of the PDF question-answering server (backend/server.js,
\* VERSION 6): the upload, ask and delete routes over the two MongoDB
\* collections, and the in-memory VectorStore class of the same file; the
\* chunker (utils/chunker.js) on texts; generateEmbeddings and
\* cosineSimilarity (utils/embeddings.js) with the brute-force ranking.
EXTENDS Integers, Sequences, FiniteSets, TLC

\* ---------------------------------------------------------------- bounds
\* largest number of chunks of a file uploaded during the run
MaxChunks == 2
\* last millisecond the clock reaches
MaxTime == 2
\* largest topK handed to VectorStore.search
MaxTopK == 2

\* ------------------------------------------------------ program constants
topK == 3
findLimit == 50
batchSize == 100

\* ------------------------------------------------------------- requests
\* request slots: each is one HTTP request, served once
Uploads == {"u1", "u2"}
SingleUpload == {"u1"}
Asks == {"a1"}
Deletes == {"d1"}

\* a text is an opaque content id; NoText stands for a missing text field
NoText == 0
Questions == {"", "q"}

VARIABLES
  variant,              \* which Vector Index implementation the run exercises
  now,                  \* the clock read by new Date().getTime()
  documentsCollection,  \* _id -> DocumentRecord
  vectorCollection,     \* the vector records, in storage order
  up,                   \* upload requests
  ask,                  \* ask requests
  del,                  \* delete requests
  store,                \* VectorStore.store : docId -> enriched chunks
  vsCall,               \* the last VectorStore call and its outcome
  vsDeleted,            \* docIds deleted from the VectorStore and not re-added
  chk,                  \* one call of splitIntoChunksWithMetadata
  emb,                  \* one call of generateEmbeddings
  rank                  \* one call of cosineSimilarity, one brute-force search

vars == <<variant, now, documentsCollection, vectorCollection, up, ask, del,
          store, vsCall, vsDeleted, chk, emb, rank>>

mongoVars == <<now, documentsCollection, vectorCollection, up, ask, del>>
memoryVars == <<store, vsCall, vsDeleted>>
callVars == <<chk, emb, rank>>

\* ------------------------------------------------------------- helpers
Min(a, b) == IF a < b THEN a ELSE b

Range(s) == {s[i] : i \in 1..Len(s)}

\* a slice that forgets its end
SliceWhole(s, k) == s

\* Array.prototype.slice(0, k) for k >= 0
Slice(s, k) == SubSeq(s, 1, Min(Len(s), k))

\* Array.prototype.filter: the elements of s at the positions of keep from
\* position i on, in their order
SelectIdx(s, keep, i) ==
  LET kept == {j \in i..Len(s) : j \in keep}
  IN  [k \in 1..Cardinality(kept) |->
         s[CHOOSE j \in kept : Cardinality({m \in kept : m < j}) = k - 1]]

\* Number.prototype.toString of a non-negative integer
Digit(n) ==
  CASE n = 0 -> "0" [] n = 1 -> "1" [] n = 2 -> "2" [] n = 3 -> "3"
    [] n = 4 -> "4" [] n = 5 -> "5" [] n = 6 -> "6" [] n = 7 -> "7"
    [] n = 8 -> "8" [] n = 9 -> "9"

RECURSIVE DecimalString(_)
DecimalString(n) ==
  IF n < 10 THEN Digit(n) ELSE DecimalString(n \div 10) \o Digit(n % 10)

\* the docIds a request can name: every timestamp the clock can show, and
\* the empty string for a docId missing from the request
DocIds == {DecimalString(t) : t \in 1..MaxTime}
ReqDocIds == DocIds \cup {""}

\* the docIds the VectorStore is called with
StoreDocIds == {DecimalString(1), DecimalString(2)}

\* ------------------------------------------------- embedding collaborator
\* embeddingModel.embedContent(text): the remote service is a function of
\* the text; the vectors it returns for chunk texts are non-zero
EmbedContent(text) ==
  CASE text % 4 = 1 -> <<1, 0>>
    [] text % 4 = 2 -> <<0, 1>>
    [] text % 4 = 3 -> <<1, 1>>
    [] text % 4 = 0 -> <<-1, 1>>

\* vectors the service may return for a question: two ordinary ones, the
\* zero vector, and one of another dimension
QueryVectors == {<<1, 0>>, <<1, 1>>, <<0, 0>>, <<1>>}

\* generateEmbeddings(texts): batches of batchSize, Promise.all per batch;
\* failAt is the position of the request the service rejects (0: none).
\* After the loop the code reads allEmbeddings[0].length, which raises a
\* TypeError for an empty list; every error is rethrown wrapped.
RECURSIVE EmbedBatches(_, _, _, _)
EmbedBatches(texts, i, allEmbeddings, failAt) ==
  IF i >= Len(texts)
  THEN IF Len(allEmbeddings) = 0
       THEN [ok |-> FALSE, values |-> <<>>]
       ELSE [ok |-> TRUE, values |-> allEmbeddings]
  ELSE LET batch == SubSeq(texts, i + 1, Min(Len(texts), i + batchSize))
       IN  IF failAt \in (i + 1)..(i + Len(batch))
           THEN [ok |-> FALSE, values |-> <<>>]
           ELSE EmbedBatches(texts, i + batchSize,
                  allEmbeddings \o [k \in 1..Len(batch) |-> EmbedContent(batch[k])],
                  failAt)

generateEmbeddings(texts, failAt) == EmbedBatches(texts, 0, <<>>, failAt)

\* ---------------------------------------------------- similarity engine
\* cosineSimilarity(vecA, vecB): throws on a length mismatch; otherwise the
\* score dot / (sqrt(normA) * sqrt(normB)), kept as its three integers
RECURSIVE SumProd(_, _, _)
SumProd(a, b, i) == IF i > Len(a) THEN 0 ELSE a[i] * b[i] + SumProd(a, b, i + 1)

cosineSimilarity(vecA, vecB) ==
  IF Len(vecA) # Len(vecB)
  THEN [threw |-> TRUE, dot |-> 0, normA |-> 0, normB |-> 0]
  ELSE [threw |-> FALSE, dot |-> SumProd(vecA, vecB, 1),
        normA |-> SumProd(vecA, vecA, 1), normB |-> SumProd(vecB, vecB, 1)]

\* 0 / 0: the division yields NaN exactly when one norm is zero
IsNaN(s) == s.normA * s.normB = 0

\* the order of two scores that are numbers: x -> sign(x) * x^2 is monotone,
\* so dot/sqrt(nA*nB) is compared through sign(dot)*dot^2 / (nA*nB)
Sq(s) == IF s.dot >= 0 THEN s.dot * s.dot ELSE 0 - s.dot * s.dot
ScoreLess(s, t) == Sq(s) * (t.normA * t.normB) < Sq(t) * (s.normA * s.normB)

\* the comparator (a, b) => b.score - a.score; a NaN difference counts as 0
CompareFn(a, b) ==
  IF IsNaN(a) \/ IsNaN(b) THEN 0
  ELSE IF ScoreLess(a, b) THEN 1
  ELSE IF ScoreLess(b, a) THEN -1
  ELSE 0

\* Array.prototype.sort is stable: an element goes after every element that
\* compares smaller than it (a higher score) and after the earlier ones it
\* compares equal to. The sort is computed on the positions: scores is the
\* sequence of scores, the result the positions 1..n in sorted order
StableSort(n, scores) ==
  LET Before(y, x) ==
        \/ CompareFn(scores[y], scores[x]) < 0
        \/ CompareFn(scores[y], scores[x]) = 0 /\ y < x
      place == [x \in 1..n |-> 1 + Cardinality({y \in 1..n : Before(y, x)})]
  IN  [k \in 1..n |-> CHOOSE x \in 1..n : place[x] = k]

Orderings(n) ==
  {f \in [1..n -> 1..n] : \A i, j \in 1..n : i # j => f[i] # f[j]}

\* the comparator is a consistent order unless NaN scores are mixed with
\* numbers; with an inconsistent comparator the order is implementation-defined
SortOutcomes(scores) ==
  IF (\E i \in 1..Len(scores) : IsNaN(scores[i]))
     /\ (\E i \in 1..Len(scores) : ~IsNaN(scores[i]))
  THEN Orderings(Len(scores))
  ELSE {StableSort(Len(scores), scores)}

\* ------------------------------------------------------------ the chunker
\* splitIntoChunksWithMetadata(pages) as the upload route sees it: n chunks
\* with consecutive chunkIndex; the text of chunk i is the content id i
chunksWithMetadata(n) == [i \in 1..n |-> [chunkIndex |-> i - 1, text |-> i]]

\* --------------------------------------------------- the chunker on text
\* A text is a sequence of characters. The newline is the one whitespace
\* character of the alphabet; two letters tell paragraphs apart.
NL == "\n"
Alphabet == {"a", "b", NL}

\* longest document text, and the largest chunkSize and overlap of a call
MaxTextLen == 7
MaxChunkSize == 2
MaxOverlap == 1

\* the texts of length n, and all texts up to MaxTextLen
TextsOfLen(n) == [1..n -> Alphabet]
Texts == UNION {TextsOfLen(n) : n \in 0..MaxTextLen}

Max(a, b) == IF a > b THEN a ELSE b

IsSpace(c) == c = NL

\* String.prototype.trim
Trim(s) ==
  LET solid == {i \in 1..Len(s) : ~IsSpace(s[i])}
  IN  IF solid = {} THEN <<>>
      ELSE SubSeq(s, CHOOSE i \in solid : \A j \in solid : i <= j,
                     CHOOSE i \in solid : \A j \in solid : i >= j)

\* String.prototype.indexOf: the first occurrence, 0-based; -1 when absent
IndexOf(text, piece) ==
  LET hits == {i \in 0..(Len(text) - Len(piece)) :
                 SubSeq(text, i + 1, i + Len(piece)) = piece}
  IN  IF hits = {} THEN -1 ELSE CHOOSE i \in hits : \A j \in hits : i <= j

\* String.prototype.slice(-k) for k >= 0: the last k characters, and the
\* whole string for k = 0, because -0 is the start index 0
SliceLast(s, k) ==
  IF k = 0 THEN s ELSE SubSeq(s, Max(Len(s) - k, 0) + 1, Len(s))

\* /\n\n+/ matches every maximal run of two or more newlines
InSeparator(text, i) ==
  /\ text[i] = NL
  /\ \/ i > 1 /\ text[i - 1] = NL
     \/ i < Len(text) /\ text[i + 1] = NL

\* text.split(/\n\n+/): the pieces between the separators, from position i
\* on. The empty pieces split() yields next to a leading or trailing separator
\* are left out here; the filter of line 19 drops them anyway.
RECURSIVE SplitFrom(_, _)
SplitFrom(text, i) ==
  IF i > Len(text) THEN <<>>
  ELSE IF InSeparator(text, i) THEN SplitFrom(text, i + 1)
  ELSE LET stops == {j \in i..Len(text) : InSeparator(text, j)}
           end == IF stops = {} THEN Len(text)
                  ELSE (CHOOSE j \in stops : \A k \in stops : j <= k) - 1
       IN  <<SubSeq(text, i, end)>> \o SplitFrom(text, end + 1)

\* the paragraphs of a page: split, then keep those with a non-blank trim
Paragraphs(text) ==
  LET pieces == SplitFrom(text, 1)
  IN  SelectIdx(pieces, {i \in 1..Len(pieces) : Len(Trim(pieces[i])) > 0}, 1)

\* extractPagesFromPDF: the pages are the consecutive slices of fullText of
\* estimatedCharsPerPage characters, numbered from 1
RECURSIVE PagesFrom(_, _, _, _)
PagesFrom(fullText, estimatedCharsPerPage, currentPos, pageNum) ==
  IF currentPos >= Len(fullText) THEN <<>>
  ELSE LET pageText == SubSeq(fullText, currentPos + 1,
                              Min(Len(fullText), currentPos + estimatedCharsPerPage))
       IN  <<[pageNumber |-> pageNum, text |-> pageText,
              startChar |-> currentPos, endChar |-> currentPos + Len(pageText)]>>
           \o PagesFrom(fullText, estimatedCharsPerPage,
                        currentPos + estimatedCharsPerPage, pageNum + 1)

extractPages(fullText, estimatedCharsPerPage) ==
  PagesFrom(fullText, estimatedCharsPerPage, 0, 1)

\* the template string for one paragraph too
paragraphRangeJoined(first, last) ==
  [type |-> "string",
   value |-> DecimalString(first) \o "-" \o DecimalString(last)]

\* the value of metadata.paragraphRange: the number itself for one paragraph,
\* the template string `${first}-${last}` otherwise
paragraphRange(first, last) ==
  IF first = last
  THEN [type |-> "number", value |-> DecimalString(first)]
  ELSE [type |-> "string",
        value |-> DecimalString(first) \o "-" \o DecimalString(last)]

\* a chunk whose range runs one paragraph too far
MakeChunkThrough(st, pageNumber, lastParagraph) ==
  [text |-> Trim(st.currentChunk),
   chunkIndex |-> st.globalChunkIndex,
   metadata |-> [page |-> pageNumber,
                 paragraphNumber |-> st.chunkStartParagraph,
                 paragraphRange |-> paragraphRange(st.chunkStartParagraph,
                                                   lastParagraph + 1),
                 startChar |-> st.chunkStartChar,
                 endChar |-> st.chunkStartChar + Len(st.currentChunk),
                 chunkLength |-> Len(st.currentChunk)]]

\* the object pushed at lines 33-46 and 74-87: the text is trimmed, the
\* offsets and chunkLength are taken from the untrimmed currentChunk
MakeChunk(st, pageNumber, lastParagraph) ==
  [text |-> Trim(st.currentChunk),
   chunkIndex |-> st.globalChunkIndex,
   metadata |-> [page |-> pageNumber,
                 paragraphNumber |-> st.chunkStartParagraph,
                 paragraphRange |-> paragraphRange(st.chunkStartParagraph, lastParagraph),
                 startChar |-> st.chunkStartChar,
                 endChar |-> st.chunkStartChar + Len(st.currentChunk),
                 chunkLength |-> Len(st.currentChunk)]]

\* a push that leaves the counter where it was
PushSameIndex(st, chunk) ==
  [st EXCEPT !.allChunks = Append(@, chunk)]

\* allChunks.push({... chunkIndex: globalChunkIndex++ ...})
Push(st, chunk) ==
  [st EXCEPT !.allChunks = Append(@, chunk), !.globalChunkIndex = @ + 1]

\* the test of line 30; the separator to be added is not counted
Exceeds(currentChunk, paragraph, chunkSize) ==
  Len(currentChunk) + Len(paragraph) > chunkSize

\* one round of the loop of lines 26-70
AddParagraph(st, paragraph, page, chunkSize, overlap) ==
  LET paragraphNumber == st.paragraphNumber + 1
      currentChunk == st.currentChunk
  IN  IF Exceeds(currentChunk, paragraph, chunkSize)
      THEN LET saved == IF Len(Trim(currentChunk)) > 0
                        THEN Push(st, MakeChunk(st, page.pageNumber, paragraphNumber - 1))
                        ELSE st
               seeded == SliceLast(currentChunk, overlap) \o <<NL, NL>> \o paragraph
           IN  IF Len(currentChunk) > overlap
               THEN [saved EXCEPT
                       !.currentChunk = seeded,
                       !.chunkStartChar =
                          st.chunkStartChar + Len(seeded) - overlap - Len(paragraph),
                       !.chunkStartParagraph = paragraphNumber,
                       !.paragraphNumber = paragraphNumber]
               ELSE [saved EXCEPT
                       !.currentChunk = paragraph,
                       !.chunkStartChar = page.startChar + IndexOf(page.text, paragraph),
                       !.chunkStartParagraph = paragraphNumber,
                       !.paragraphNumber = paragraphNumber]
      ELSE IF Len(currentChunk) > 0
           THEN [st EXCEPT !.currentChunk = currentChunk \o <<NL, NL>> \o paragraph,
                           !.paragraphNumber = paragraphNumber]
           ELSE [st EXCEPT !.currentChunk = paragraph,
                           !.chunkStartChar = page.startChar + IndexOf(page.text, paragraph),
                           !.chunkStartParagraph = paragraphNumber,
                           !.paragraphNumber = paragraphNumber]

RECURSIVE AddParagraphs(_, _, _, _, _, _)
AddParagraphs(st, paragraphs, i, page, chunkSize, overlap) ==
  IF i > Len(paragraphs) THEN st
  ELSE AddParagraphs(AddParagraph(st, paragraphs[i], page, chunkSize, overlap),
                     paragraphs, i + 1, page, chunkSize, overlap)

\* the end of a page without the last push
FlushNothing(st, page) == st

\* lines 72-88: what is left in the buffer becomes the last chunk of the page
Flush(st, page) ==
  IF Len(Trim(st.currentChunk)) > 0
  THEN Push(st, MakeChunk(st, page.pageNumber, st.paragraphNumber))
  ELSE st

\* one round of the loop over the pages, lines 15-89: the buffer, the offsets
\* and the paragraph counters start afresh, allChunks and globalChunkIndex go on
ChunkPage(st, page, chunkSize, overlap) ==
  Flush(AddParagraphs([st EXCEPT !.currentChunk = <<>>,
                                 !.chunkStartChar = page.startChar,
                                 !.paragraphNumber = 0,
                                 !.chunkStartParagraph = 0],
                      Paragraphs(page.text), 1, page, chunkSize, overlap),
        page)

RECURSIVE ChunkPages(_, _, _, _, _)
ChunkPages(st, pages, i, chunkSize, overlap) ==
  IF i > Len(pages) THEN st
  ELSE ChunkPages(ChunkPage(st, pages[i], chunkSize, overlap),
                  pages, i + 1, chunkSize, overlap)

\* splitIntoChunksWithMetadata(pages, chunkSize, overlap); the statistics
\* logged at lines 91-96 are NaN for no chunks and raise nothing
splitIntoChunksWithMetadata(pages, chunkSize, overlap) ==
  ChunkPages([allChunks |-> <<>>, globalChunkIndex |-> 0, currentChunk |-> <<>>,
              chunkStartChar |-> 0, paragraphNumber |-> 0, chunkStartParagraph |-> 0],
             pages, 1, chunkSize, overlap).allChunks

\* ------------------------------------------------------------------ Init
IdleUpload == [pc |-> "idle", docId |-> "", chunks |-> <<>>, embeddings |-> <<>>,
               status |-> 0]

\* besides the request and its response, an ask record keeps what happened:
\* calls (the collaborator calls made, in order), document (what findOne
\* answered), primary (how the primary search ended), torn (a search read the
\* collections while Torn), retrieved (the length of relevantChunks, -1
\* before a search has produced it) and fault (the call that failed)
IdleAsk == [pc |-> "idle", docId |-> "", question |-> "",
            questionEmbedding |-> <<>>, relevantChunks |-> <<>>,
            status |-> 0, answer |-> "", sources |-> <<>>,
            calls |-> <<>>, document |-> "", primary |-> "", torn |-> FALSE,
            retrieved |-> -1, fault |-> ""]

IdleDelete == [pc |-> "idle", docId |-> "", status |-> 0]

NoCall == [op |-> "", docId |-> "", nChunks |-> 0, nEmbeddings |-> 0,
           topK |-> 0, threw |-> FALSE, results |-> <<>>]

\* a map without keys
EmptyMap == [id \in {} |-> 0]

\* The database outlives the process: it holds one document, ingested by an
\* earlier upload "u0" in the millisecond the clock still shows, with one
\* chunk more than a search returns.
StoredDocId == DecimalString(1)
StoredVectors ==
  [i \in 1..(topK + 1) |->
     [docId |-> StoredDocId, chunkIndex |-> i - 1, text |-> i,
      embedding |-> EmbedContent(i), writer |-> "u0"]]
StoredDocuments ==
  [id \in {StoredDocId} |->
     [chunkCount |-> topK + 1, status |-> "processed", writer |-> "u0"]]

\* no call of the chunker, of generateEmbeddings or of the ranking is under way
IdleChunk == [pc |-> "idle", pages |-> <<>>, chunkSize |-> 0, overlap |-> 0,
              chunks |-> <<>>]
NoResult == [ok |-> FALSE, values |-> <<>>, error |-> ""]
IdleEmbed == [pc |-> "idle", texts |-> <<>>, i |-> 0, allEmbeddings |-> <<>>,
              issued |-> {}, pending |-> 0, failed |-> 0, delays |-> 0,
              result |-> NoResult]
NoScore == [called |-> FALSE, vecA |-> <<>>, vecB |-> <<>>,
            value |-> [threw |-> FALSE, dot |-> 0, normA |-> 0, normB |-> 0]]
IdleRank == [pc |-> "idle", docId |-> "", questionEmbedding |-> <<>>,
             score |-> NoScore, threw |-> FALSE, relevantChunks |-> <<>>]

\* the server at rest: the stored document, no request, no VectorStore entry
Rest ==
  /\ now = 1
  /\ documentsCollection = StoredDocuments
  /\ vectorCollection = StoredVectors
  /\ up = [u \in Uploads |-> IdleUpload]
  /\ ask = [a \in Asks |-> IdleAsk]
  /\ del = [d \in Deletes |-> IdleDelete]
  /\ store = EmptyMap
  /\ vsCall = NoCall
  /\ vsDeleted = {}

Init ==
  /\ variant \in {"mongodb", "memory"}
  /\ Rest
  /\ chk = IdleChunk
  /\ emb = IdleEmbed
  /\ rank = IdleRank

\* the millisecond clock advances
Tick ==
  /\ variant = "mongodb"
  /\ now < MaxTime
  /\ now' = now + 1
  /\ UNCHANGED <<variant, documentsCollection, vectorCollection, up, ask, del>>
  /\ UNCHANGED memoryVars
  /\ UNCHANGED callVars

\* -------------------------------------------------- POST /api/upload
\* the records of one docId, in storage order
VectorsOf(docId) ==
  SelectIdx(vectorCollection,
            {i \in 1..Len(vectorCollection) : vectorCollection[i].docId = docId}, 1)

\* the response is sent and the locals of the request are gone
UploadFinish(u, code) ==
  up' = [up EXCEPT ![u].pc = "done", ![u].status = code,
                   ![u].chunks = <<>>, ![u].embeddings = <<>>]

\* up to the first write: file check, text extraction, chunking, embedding,
\* and the docId read from the clock once the embeddings have arrived
UploadProcess(u) ==
  /\ variant = "mongodb"
  /\ up[u].pc = "idle"
  /\ \/ UploadFinish(u, 400)                       \* !req.file
     \/ UploadFinish(u, 500)                       \* pdfParse rejects the file
     \/ \E n \in 0..MaxChunks, failAt \in 0..1 :
          LET chunks == chunksWithMetadata(n)
              embeddings == generateEmbeddings([i \in 1..n |-> chunks[i].text], failAt)
          IN  IF ~embeddings.ok THEN UploadFinish(u, 500)
              ELSE up' = [up EXCEPT ![u].pc = "insertOne",
                                    ![u].docId = DecimalString(now),
                                    ![u].chunks = chunks,
                                    ![u].embeddings = embeddings.values]
  /\ UNCHANGED <<variant, now, documentsCollection, vectorCollection, ask, del>>
  /\ UNCHANGED memoryVars
  /\ UNCHANGED callVars

\* documentsCollection.insertOne(documentRecord): _id is the unique key of
\* the collection, so a second record with the same _id is rejected
UploadInsertOne(u) ==
  /\ variant = "mongodb"
  /\ up[u].pc = "insertOne"
  /\ \E dbOk \in BOOLEAN :
       IF dbOk /\ up[u].docId \notin DOMAIN documentsCollection
       THEN /\ documentsCollection' =
                 [id \in DOMAIN documentsCollection \cup {up[u].docId} |->
                    IF id = up[u].docId
                    THEN [chunkCount |-> Len(up[u].chunks), status |-> "processed",
                          writer |-> u]
                    ELSE documentsCollection[id]]
            /\ up' = [up EXCEPT ![u].pc = "insertMany"]
       ELSE /\ UploadFinish(u, 500)
            /\ UNCHANGED documentsCollection
  /\ UNCHANGED <<variant, now, vectorCollection, ask, del>>
  /\ UNCHANGED memoryVars
  /\ UNCHANGED callVars

vectorDocuments(u) ==
  [i \in 1..Len(up[u].chunks) |->
     [docId |-> up[u].docId, chunkIndex |-> up[u].chunks[i].chunkIndex,
      text |-> up[u].chunks[i].text, embedding |-> up[u].embeddings[i],
      writer |-> u]]

\* vectorCollection.insertMany(vectorDocuments): an ordered insert that
\* fails has stored the records before the failing one
UploadInsertMany(u) ==
  /\ variant = "mongodb"
  /\ up[u].pc = "insertMany"
  /\ \E stored \in 0..Len(up[u].chunks) :
       /\ vectorCollection' = vectorCollection \o SubSeq(vectorDocuments(u), 1, stored)
       /\ UploadFinish(u, IF stored = Len(up[u].chunks) THEN 200 ELSE 500)
  /\ UNCHANGED <<variant, now, documentsCollection, ask, del>>
  /\ UNCHANGED memoryVars
  /\ UNCHANGED callVars

\* ----------------------------------------------------- POST /api/ask
\* the response is sent and the locals of the request are gone
Finished(r, code) ==
  [r EXCEPT !.pc = "done", !.status = code,
            !.questionEmbedding = <<>>, !.relevantChunks = <<>>]

\* the catch of the route: the stage that threw, and status 500
Failed(r, stage) == [Finished(r, 500) EXCEPT !.fault = stage]

\* !docId || !question
MissingInput(docId, question) == docId = "" \/ question = ""

\* documentsCollection.findOne({ _id: docId })
findOne(docId) == IF docId \in DOMAIN documentsCollection THEN "record" ELSE "null"

\* a route that does not look at the lookup's answer
NoDocumentUnchecked(document) == FALSE

\* !document
NoDocument(document) == document = "null"

\* the DocumentRecord of docId exists while not all of its chunkCount vector
\* records are stored
Torn(docId) ==
  /\ docId \in DOMAIN documentsCollection
  /\ Len(VectorsOf(docId)) < documentsCollection[docId].chunkCount

\* the score the storage engine attaches ($meta: "vectorSearchScore")
NativeScore == [threw |-> FALSE, dot |-> 1, normA |-> 1, normB |-> 1]

\* what $vectorSearch with { limit, filter: { docId } } followed by $project
\* can answer: the best records stored under docId in the engine's ranking
\* (taken here to be the storage order), at most limit of them; the index
\* lags the collection, so fewer than are stored may come back
VectorSearch(docId, limit) ==
  {[i \in 1..c |-> [text |-> VectorsOf(docId)[i].text, score |-> NativeScore,
                    docId |-> VectorsOf(docId)[i].docId]] :
     c \in 0..Min(limit, Len(VectorsOf(docId)))}

\* the brute-force search of the catch block: find({ docId }).limit(50),
\* a cosine score per record, sort by descending score, slice(0, topK)
Fallback(docId, questionEmbedding) ==
  LET allChunks == Slice(VectorsOf(docId), findLimit)
      scores == [i \in 1..Len(allChunks) |->
                   cosineSimilarity(questionEmbedding, allChunks[i].embedding)]
      chunksWithScores == [i \in 1..Len(allChunks) |->
                             [text |-> allChunks[i].text, score |-> scores[i],
                              docId |-> allChunks[i].docId]]
  IN  IF \E i \in 1..Len(allChunks) : scores[i].threw
      THEN [threw |-> TRUE, results |-> {}]
      ELSE [threw |-> FALSE,
            results |-> {Slice([i \in 1..Len(order) |-> chunksWithScores[order[i]]], topK) :
                           order \in SortOutcomes(scores)}]

\* a route without the empty-result short-circuit
NothingRetrievedUnchecked(relevantChunks) == FALSE

\* relevantChunks.length === 0
NothingRetrieved(relevantChunks) == Len(relevantChunks) = 0

\* the route after the search, for the request record r: the fixed answer
\* when nothing was retrieved, else the prompt (reading chunk.text.length of
\* every chunk), one call of chatModel.generateContent, which succeeds iff
\* generated, and the response with its sources
Respond(req, relevantChunks, generated) ==
  LET r == [req EXCEPT !.retrieved = Len(relevantChunks)]
  IN
  IF NothingRetrieved(relevantChunks)
  THEN [Finished(r, 200) EXCEPT !.answer = "No relevant information found",
                                !.sources = <<>>]
  ELSE IF \E i \in 1..Len(relevantChunks) : relevantChunks[i].text = NoText
  THEN Failed(r, "prompt")
  ELSE LET called == [r EXCEPT !.calls = Append(@, "generate")]
       IN  IF generated
           THEN [Finished(called, 200) EXCEPT
                   !.answer = "generated",
                   !.sources = [i \in 1..Len(relevantChunks) |->
                                  [sourceNumber |-> i,
                                   text |-> relevantChunks[i].text,
                                   docId |-> relevantChunks[i].docId]]]
           ELSE Failed(called, "generate")

\* validation, the document lookup, and generateSingleEmbedding(question)
\* (one request to the embedding service, rethrown wrapped on failure)
AskStart(a) ==
  /\ variant = "mongodb"
  /\ ask[a].pc = "idle"
  /\ \E docId \in ReqDocIds, question \in Questions :
       LET req == [ask[a] EXCEPT !.docId = docId, !.question = question]
           looking == [req EXCEPT !.calls = Append(@, "findOne")]
           looked == [looking EXCEPT !.document = findOne(docId)]
           called == [looked EXCEPT !.calls = Append(@, "embed")]
       IN  IF MissingInput(docId, question)
           THEN ask' = [ask EXCEPT ![a] = Finished(req, 400)]
           ELSE \/ ask' = [ask EXCEPT ![a] = Failed(looking, "findOne")]
                \/ IF NoDocument(looked.document)
                   THEN ask' = [ask EXCEPT ![a] = Finished(looked, 404)]
                   ELSE \/ ask' = [ask EXCEPT ![a] = Failed(called, "embed")]
                        \/ \E v \in QueryVectors :
                             ask' = [ask EXCEPT ![a] =
                                       [called EXCEPT !.pc = "primary",
                                                      !.questionEmbedding = v]]
  /\ UNCHANGED <<variant, now, documentsCollection, vectorCollection, up, del>>
  /\ UNCHANGED memoryVars
  /\ UNCHANGED callVars

\* a catch that tries the primary search again
AfterSearchErrorRetry == "primary"

\* where the catch of the vector search sends the request
AfterSearchError == "fallback"

\* the primary search, vectorCollection.aggregate(pipeline).toArray(), and,
\* unless it throws, the rest of the route:
\*   "ok"        the engine answers from the index
\*   "noindex"   no search index named "vectors" exists: the engine answers
\*               with no documents, or rejects the stage
\*   "error"     the query raises an error
\*   "malformed" the engine answers with a document that has no text
AskPrimary(a) ==
  /\ variant = "mongodb"
  /\ ask[a].pc = "primary"
  /\ \E outcome \in {"ok", "noindex", "error", "malformed"}, rejects \in BOOLEAN,
        generated \in BOOLEAN :
       LET called == [ask[a] EXCEPT !.calls = Append(@, "primary"),
                                    !.primary = outcome,
                                    !.torn = Torn(ask[a].docId)]
       IN  CASE outcome = "ok" ->
                  \E found \in VectorSearch(ask[a].docId, topK) :
                    ask' = [ask EXCEPT ![a] = Respond(called, found, generated)]
             [] outcome = "noindex" ->
                  IF rejects
                  THEN ask' = [ask EXCEPT ![a] = [called EXCEPT !.pc = AfterSearchError]]
                  ELSE ask' = [ask EXCEPT ![a] = Respond(called, <<>>, generated)]
             [] outcome = "error" ->
                  ask' = [ask EXCEPT ![a] = [called EXCEPT !.pc = AfterSearchError]]
             [] outcome = "malformed" ->
                  ask' = [ask EXCEPT ![a] =
                            Respond(called, <<[text |-> NoText, score |-> NativeScore,
                                               docId |-> ask[a].docId]>>, generated)]
  /\ UNCHANGED <<variant, now, documentsCollection, vectorCollection, up, del>>
  /\ UNCHANGED memoryVars
  /\ UNCHANGED callVars

\* the catch block and the rest of the route
AskFallback(a) ==
  /\ variant = "mongodb"
  /\ ask[a].pc = "fallback"
  /\ \E dbOk \in BOOLEAN, generated \in BOOLEAN :
       LET called == [ask[a] EXCEPT !.calls = Append(@, "fallback"),
                                    !.torn = Torn(ask[a].docId)]
           search == Fallback(ask[a].docId, ask[a].questionEmbedding)
       IN  IF ~dbOk \/ search.threw
           THEN ask' = [ask EXCEPT ![a] = Failed(called, "fallback")]
           ELSE \E found \in search.results :
                  ask' = [ask EXCEPT ![a] = Respond(called, found, generated)]
  /\ UNCHANGED <<variant, now, documentsCollection, vectorCollection, up, del>>
  /\ UNCHANGED memoryVars
  /\ UNCHANGED callVars

\* ------------------------------------------- DELETE /api/document/:docId
\* vectorCollection.deleteMany({ docId })
DeleteVectors(d) ==
  /\ variant = "mongodb"
  /\ del[d].pc = "idle"
  /\ \E docId \in DocIds, dbOk \in BOOLEAN :
       IF dbOk
       THEN /\ vectorCollection' =
                 SelectIdx(vectorCollection,
                           {i \in 1..Len(vectorCollection) :
                              vectorCollection[i].docId # docId}, 1)
            /\ del' = [del EXCEPT ![d].pc = "deleteOne", ![d].docId = docId]
       ELSE /\ del' = [del EXCEPT ![d].pc = "done", ![d].docId = docId,
                                  ![d].status = 500]
            /\ UNCHANGED vectorCollection
  /\ UNCHANGED <<variant, now, documentsCollection, up, ask>>
  /\ UNCHANGED memoryVars
  /\ UNCHANGED callVars

\* documentsCollection.deleteOne({ _id: docId })
DeleteDocument(d) ==
  /\ variant = "mongodb"
  /\ del[d].pc = "deleteOne"
  /\ \E dbOk \in BOOLEAN :
       IF dbOk
       THEN /\ documentsCollection' =
                 [id \in DOMAIN documentsCollection \ {del[d].docId} |->
                    documentsCollection[id]]
            /\ del' = [del EXCEPT ![d].pc = "done", ![d].status = 200]
       ELSE /\ del' = [del EXCEPT ![d].pc = "done", ![d].status = 500]
            /\ UNCHANGED documentsCollection
  /\ UNCHANGED <<variant, now, vectorCollection, up, ask>>
  /\ UNCHANGED memoryVars
  /\ UNCHANGED callVars

\* ------------------------------------------------- class VectorStore
defaultTopK == 5

\* addDocuments without the length check: a chunk beyond the embeddings
\* gets no vector
addDocumentsUnchecked(st, docId, chunks, embeddings) ==
  [threw |-> FALSE,
   store |-> [id \in DOMAIN st \cup {docId} |->
                IF id = docId
                THEN [i \in 1..Len(chunks) |->
                        [text |-> chunks[i].text,
                         embedding |-> IF i <= Len(embeddings) THEN embeddings[i] ELSE <<>>,
                         chunkIndex |-> chunks[i].chunkIndex,
                         docId |-> docId]]
                ELSE st[id]]]

\* addDocuments(docId, chunks, embeddings) on the map st; a stored chunk
\* remembers the docId it was added under
addDocuments(st, docId, chunks, embeddings) ==
  IF Len(chunks) # Len(embeddings)
  THEN [threw |-> TRUE, store |-> st]
  ELSE LET enrichedChunks == [i \in 1..Len(chunks) |->
                                [text |-> chunks[i].text,
                                 embedding |-> embeddings[i],
                                 chunkIndex |-> chunks[i].chunkIndex,
                                 docId |-> docId]]
       IN  [threw |-> FALSE,
            store |-> [id \in DOMAIN st \cup {docId} |->
                         IF id = docId THEN enrichedChunks ELSE st[id]]]

\* search(docId, queryEmbedding, topK) on the map st: the outcomes of the call
search(st, docId, queryEmbedding, k) ==
  IF docId \notin DOMAIN st
  THEN [threw |-> TRUE, results |-> {}]
  ELSE LET chunks == st[docId]
           scores == [i \in 1..Len(chunks) |->
                        cosineSimilarity(queryEmbedding, chunks[i].embedding)]
           results == [i \in 1..Len(chunks) |->
                         [text |-> chunks[i].text, chunkIndex |-> chunks[i].chunkIndex,
                          similarity |-> scores[i], docId |-> chunks[i].docId]]
       IN  IF \E i \in 1..Len(chunks) : scores[i].threw
           THEN [threw |-> TRUE, results |-> {}]
           ELSE [threw |-> FALSE,
                 results |-> {Slice([i \in 1..Len(order) |-> results[order[i]]], k) :
                                order \in SortOutcomes(scores)}]

\* deleteDocument(docId) on the map st
deleteDocument(st, docId) ==
  [deleted |-> docId \in DOMAIN st,
   store |-> [id \in DOMAIN st \ {docId} |-> st[id]]]

VSAddDocuments ==
  /\ variant = "memory"
  /\ \E docId \in StoreDocIds, n \in 0..MaxChunks, m \in 0..MaxChunks :
       LET chunks == chunksWithMetadata(n)
           embeddings == [i \in 1..m |-> EmbedContent(i)]
           call == addDocuments(store, docId, chunks, embeddings)
       IN  /\ store' = call.store
           /\ vsCall' = [NoCall EXCEPT !.op = "addDocuments", !.docId = docId,
                                       !.nChunks = n, !.nEmbeddings = m,
                                       !.threw = call.threw]
           /\ vsDeleted' = IF call.threw THEN vsDeleted ELSE vsDeleted \ {docId}
  /\ UNCHANGED variant
  /\ UNCHANGED mongoVars
  /\ UNCHANGED callVars

VSSearch ==
  /\ variant = "memory"
  /\ \E docId \in StoreDocIds, q \in QueryVectors, k \in (0..MaxTopK) \cup {defaultTopK} :
       LET call == search(store, docId, q, k)
       IN  IF call.threw
           THEN vsCall' = [NoCall EXCEPT !.op = "search", !.docId = docId, !.topK = k,
                                         !.threw = TRUE]
           ELSE \E found \in call.results :
                  vsCall' = [NoCall EXCEPT !.op = "search", !.docId = docId,
                                           !.topK = k, !.results = found]
  /\ UNCHANGED <<variant, store, vsDeleted>>
  /\ UNCHANGED mongoVars
  /\ UNCHANGED callVars

VSDeleteDocument ==
  /\ variant = "memory"
  /\ \E docId \in StoreDocIds :
       LET call == deleteDocument(store, docId)
       IN  /\ store' = call.store
           /\ vsCall' = [NoCall EXCEPT !.op = "deleteDocument", !.docId = docId]
           /\ vsDeleted' = IF call.deleted THEN vsDeleted \cup {docId} ELSE vsDeleted
  /\ UNCHANGED variant
  /\ UNCHANGED mongoVars
  /\ UNCHANGED callVars

\* clear()
VSClear ==
  /\ variant = "memory"
  /\ store' = EmptyMap
  /\ vsCall' = [NoCall EXCEPT !.op = "clear"]
  /\ UNCHANGED <<variant, vsDeleted>>
  /\ UNCHANGED mongoVars
  /\ UNCHANGED callVars

\* ----------------------------------------------------------------- Next
\* Spec: one upload, one ask and one delete request in any interleaving, or
\* calls of the VectorStore methods
Next ==
  \/ Tick
  \/ \E u \in SingleUpload : UploadProcess(u)
  \/ \E u \in SingleUpload : UploadInsertOne(u)
  \/ \E u \in SingleUpload : UploadInsertMany(u)
  \/ \E a \in Asks : AskStart(a)
  \/ \E a \in Asks : AskPrimary(a)
  \/ \E a \in Asks : AskFallback(a)
  \/ \E d \in Deletes : DeleteVectors(d)
  \/ \E d \in Deletes : DeleteDocument(d)
  \/ VSAddDocuments
  \/ VSSearch
  \/ VSDeleteDocument
  \/ VSClear

Spec == Init /\ [][Next]_vars

\* SpecIngest: two concurrent uploads and one delete request
InitIngest == Init /\ variant = "mongodb"

NextIngest ==
  \/ Tick
  \/ \E u \in Uploads : UploadProcess(u)
  \/ \E u \in Uploads : UploadInsertOne(u)
  \/ \E u \in Uploads : UploadInsertMany(u)
  \/ \E d \in Deletes : DeleteVectors(d)
  \/ \E d \in Deletes : DeleteDocument(d)

SpecIngest == InitIngest /\ [][NextIngest]_vars

\* ---------------------------------------- SpecEmbed: generateEmbeddings
\* longest of the short lists of texts handed to generateEmbeddings
MaxTexts == 2

\* the lengths of the lists: the short ones, one full batch, one text more,
\* and two batches and a text
TextCounts ==
  (0..MaxTexts) \cup {batchSize, batchSize + 1, batchSize + batchSize + 1}

\* the error generateEmbeddings throws: every cause is wrapped alike
EmbeddingsError == "Failed to generate embeddings: "
Wrapped(message) == EmbeddingsError \o message

\* the call generateEmbeddings(texts); texts are content ids, the k-th being
\* first + k
InitEmbed ==
  /\ variant = "embeddings"
  /\ Rest
  /\ chk = IdleChunk
  /\ \E n \in TextCounts, first \in 0..3 :
       emb = [IdleEmbed EXCEPT !.pc = "loop", !.texts = [k \in 1..n |-> first + k]]
  /\ rank = IdleRank

\* the positions in texts of the batch that starts after position i
BatchAt(e) == (e.i + 1)..Min(Len(e.texts), e.i + batchSize)

\* lines 25-34: batch.map(...) calls embedContent for every text of the
\* batch before the first answer is awaited; pending counts the requests
\* issued and not yet answered
EmbedIssue ==
  /\ emb.pc = "loop"
  /\ emb.i < Len(emb.texts)
  /\ emb' = [emb EXCEPT !.pc = "await", !.issued = @ \cup BatchAt(emb),
                        !.pending = @ + Cardinality(BatchAt(emb))]
  /\ UNCHANGED variant
  /\ UNCHANGED mongoVars
  /\ UNCHANGED memoryVars
  /\ UNCHANGED <<chk, rank>>

\* a rejected request is counted as answered and the loop goes on
SettledLenient(e, failed) ==
  [e EXCEPT !.pc = IF e.i + batchSize < Len(e.texts) THEN "delay" ELSE "loop",
            !.i = IF e.i + batchSize < Len(e.texts) THEN @ ELSE @ + batchSize,
            !.failed = IF failed # 0 THEN failed ELSE @,
            !.pending = IF failed # 0 THEN @ - 1 ELSE @,
            !.allEmbeddings =
               @ \o [k \in 1..Cardinality(BatchAt(e)) |-> EmbedContent(e.texts[e.i + k])]]

\* lines 29-43 and 51-54: Promise.all settles. With the request at position
\* failed rejected (0: none) the rejection is caught and rethrown wrapped,
\* the other requests staying as they are; otherwise the vectors are
\* appended in the order of the texts, and a delay follows unless this was
\* the last batch
Settled(e, failed) ==
  IF failed # 0
  THEN [e EXCEPT !.pc = "done", !.failed = failed, !.pending = @ - 1,
                 !.result = [ok |-> FALSE, values |-> <<>>,
                             error |-> Wrapped("request rejected")]]
  ELSE [e EXCEPT
          !.pc = IF e.i + batchSize < Len(e.texts) THEN "delay" ELSE "loop",
          !.i = IF e.i + batchSize < Len(e.texts) THEN @ ELSE @ + batchSize,
          !.allEmbeddings =
             @ \o [k \in 1..Cardinality(BatchAt(e)) |-> EmbedContent(e.texts[e.i + k])]]

\* one request of the batch in flight is answered with its vector
EmbedAnswer ==
  /\ emb.pc = "await"
  /\ emb.pending > 0
  /\ emb' = [emb EXCEPT !.pending = @ - 1]
  /\ UNCHANGED variant
  /\ UNCHANGED mongoVars
  /\ UNCHANGED memoryVars
  /\ UNCHANGED <<chk, rank>>

\* the loop goes on without waiting for the answers
AllAnsweredOrNot(e) == TRUE

\* await Promise.all(...) resumes once every request has been answered
AllAnswered(e) == e.pending = 0

\* Promise.all is fulfilled, or a request still in flight is rejected
EmbedSettle ==
  /\ emb.pc = "await"
  /\ \/ /\ AllAnswered(emb)
        /\ emb' = Settled(emb, 0)
     \/ /\ emb.pending > 0
        /\ \E failed \in BatchAt(emb) : emb' = Settled(emb, failed)
  /\ UNCHANGED variant
  /\ UNCHANGED mongoVars
  /\ UNCHANGED memoryVars
  /\ UNCHANGED <<chk, rank>>

\* lines 41-43: the pause of 100 ms between two batches is over
EmbedDelay ==
  /\ emb.pc = "delay"
  /\ emb' = [emb EXCEPT !.pc = "loop", !.i = @ + batchSize, !.delays = @ + 1]
  /\ UNCHANGED variant
  /\ UNCHANGED mongoVars
  /\ UNCHANGED memoryVars
  /\ UNCHANGED <<chk, rank>>

\* lines 47-54: after the loop allEmbeddings[0].length is read for the log,
\* a TypeError when nothing was embedded, which the catch wraps like any
\* other error; otherwise allEmbeddings is returned
EmbedFinish ==
  /\ emb.pc = "loop"
  /\ emb.i >= Len(emb.texts)
  /\ emb' = [emb EXCEPT
               !.pc = "done",
               !.result =
                  IF Len(emb.allEmbeddings) = 0
                  THEN [ok |-> FALSE, values |-> <<>>,
                        error |-> Wrapped("Cannot read properties of undefined")]
                  ELSE [ok |-> TRUE, values |-> emb.allEmbeddings, error |-> ""]]
  /\ UNCHANGED variant
  /\ UNCHANGED mongoVars
  /\ UNCHANGED memoryVars
  /\ UNCHANGED <<chk, rank>>

NextEmbed ==
  \/ EmbedIssue
  \/ EmbedAnswer
  \/ EmbedSettle
  \/ EmbedDelay
  \/ EmbedFinish

SpecEmbed == InitEmbed /\ [][NextEmbed]_vars

\* ------------------------- SpecRank: cosineSimilarity and the fallback
\* largest number of records stored under the docId asked about
MaxRecords == 4

\* the embeddings a stored record may carry, the zero vector among them
ChunkVectors == {<<1, 0>>, <<1, 1>>, <<0, 1>>, <<0, 0>>}

\* a record of another document, stored first
ForeignRecord ==
  [docId |-> DecimalString(2), chunkIndex |-> 0, text |-> 0,
   embedding |-> <<1, 0>>, writer |-> "u0"]

\* the records of the document asked about; the text of a record is its
\* position among them
RecordsOf(embeddings) ==
  [i \in 1..Len(embeddings) |->
     [docId |-> StoredDocId, chunkIndex |-> i - 1, text |-> i,
      embedding |-> embeddings[i], writer |-> "u0"]]

\* one record more than find() loads: the record after the limit is the one
\* closest to the question <<1, 0>>
BeyondLimit ==
  [i \in 1..(findLimit + 1) |-> IF i <= findLimit THEN <<0, 1>> ELSE <<1, 0>>]

StoredEmbeddings ==
  UNION {[1..n -> ChunkVectors] : n \in 0..MaxRecords} \cup {BeyondLimit}

\* a question about the stored document, the primary search having failed
InitRank ==
  /\ variant = "ranking"
  /\ now = 1
  /\ documentsCollection = StoredDocuments
  /\ \E embeddings \in StoredEmbeddings :
       vectorCollection = <<ForeignRecord>> \o RecordsOf(embeddings)
  /\ up = [u \in Uploads |-> IdleUpload]
  /\ ask = [a \in Asks |-> IdleAsk]
  /\ del = [d \in Deletes |-> IdleDelete]
  /\ store = EmptyMap
  /\ vsCall = NoCall
  /\ vsDeleted = {}
  /\ chk = IdleChunk
  /\ emb = IdleEmbed
  /\ \E questionEmbedding \in QueryVectors :
       rank = [IdleRank EXCEPT !.pc = "asked", !.docId = StoredDocId,
                               !.questionEmbedding = questionEmbedding]

\* one call cosineSimilarity(questionEmbedding, vecB)
RankScore ==
  /\ rank.pc = "asked"
  /\ \E vecB \in ChunkVectors :
       rank' = [rank EXCEPT
                  !.pc = "done",
                  !.score = [called |-> TRUE, vecA |-> rank.questionEmbedding,
                             vecB |-> vecB,
                             value |-> cosineSimilarity(rank.questionEmbedding, vecB)]]
  /\ UNCHANGED variant
  /\ UNCHANGED mongoVars
  /\ UNCHANGED memoryVars
  /\ UNCHANGED <<chk, emb>>

\* the catch block of the ask route, lines 282-300
RankFallback ==
  /\ rank.pc = "asked"
  /\ LET found == Fallback(rank.docId, rank.questionEmbedding)
     IN  \/ /\ found.threw
            /\ rank' = [rank EXCEPT !.pc = "done", !.threw = TRUE]
         \/ /\ ~found.threw
            /\ \E relevantChunks \in found.results :
                 rank' = [rank EXCEPT !.pc = "done",
                                      !.relevantChunks = relevantChunks]
  /\ UNCHANGED variant
  /\ UNCHANGED mongoVars
  /\ UNCHANGED memoryVars
  /\ UNCHANGED <<chk, emb>>

NextRank ==
  \/ RankScore
  \/ RankFallback

SpecRank == InitRank /\ [][NextRank]_vars

\* ------------------------------------------------- SpecChunk: the chunker
\* page sizes of the documents chunked: half a longest text, so that a text
\* has up to three pages, and a whole one
PageSizes == {MaxTextLen \div 2, MaxTextLen}

\* the chunk sizes of a call: the small ones, which make the chunker cut, and
\* one that every page fits in, as the default 1000 is for short pages
ChunkSizes == (1..MaxChunkSize) \cup {MaxTextLen}

\* any text cut into pages, any of the chunk sizes, any overlap
InitChunk ==
  /\ variant = "chunker"
  /\ Rest
  /\ \E fullText \in Texts, perPage \in PageSizes,
        chunkSize \in ChunkSizes, overlap \in 0..MaxOverlap :
       chk = [pc |-> "called", pages |-> extractPages(fullText, perPage),
              chunkSize |-> chunkSize, overlap |-> overlap, chunks |-> <<>>]
  /\ emb = IdleEmbed
  /\ rank = IdleRank

\* splitIntoChunksWithMetadata(pages, chunkSize, overlap) returns
ChunkReturn ==
  /\ chk.pc = "called"
  /\ chk' = [chk EXCEPT
               !.pc = "returned",
               !.chunks = splitIntoChunksWithMetadata(chk.pages, chk.chunkSize,
                                                      chk.overlap)]
  /\ UNCHANGED variant
  /\ UNCHANGED mongoVars
  /\ UNCHANGED memoryVars
  /\ UNCHANGED <<emb, rank>>

NextChunk == ChunkReturn

SpecChunk == InitChunk /\ [][NextChunk]_vars

TypeOK ==
  /\ variant \in {"mongodb", "memory"}
  /\ now \in 1..MaxTime
  /\ DOMAIN documentsCollection \subseteq DocIds
  /\ DOMAIN store \subseteq StoreDocIds
  /\ \A u \in Uploads : up[u].pc \in {"idle", "insertOne", "insertMany", "done"}
  /\ \A a \in Asks : ask[a].pc \in {"idle", "primary", "fallback", "done"}
  /\ \A d \in Deletes : del[d].pc \in {"idle", "deleteOne", "done"}

\* ============================================================ properties
IsPrefix(s, t) == Len(s) <= Len(t) /\ SubSeq(t, 1, Len(s)) = s

NoInformation == "No relevant information found"

\* C1: a search returns at most topK results, each stored under the
\* requested docId: in the ask route (relevantChunks of either search path,
\* and the sources answered) and in VectorStore.search.
C1_SearchBounded ==
  /\ \A a \in Asks :
       /\ ask[a].retrieved <= topK
       /\ Len(ask[a].sources) <= topK
       /\ \A i \in 1..Len(ask[a].sources) : ask[a].sources[i].docId = ask[a].docId
  /\ (vsCall.op = "search" /\ ~vsCall.threw) =>
       /\ Len(vsCall.results) <= vsCall.topK
       /\ \A i \in 1..Len(vsCall.results) : vsCall.results[i].docId = vsCall.docId

\* the fallback answered exactly topK sources of a document that has more
\* records, while records of another document are stored
C1_Witness ==
  \E a \in Asks :
    /\ ask[a].answer = "generated"
    /\ "fallback" \in Range(ask[a].calls)
    /\ Len(ask[a].sources) = topK
    /\ Len(VectorsOf(ask[a].docId)) > topK
    /\ \E i \in 1..Len(vectorCollection) : vectorCollection[i].docId # ask[a].docId

\* C2: whenever the primary search of an ask request fails (index absent,
\* query error, malformed response) the request is served by the fallback
\* search, which hands the route its result.
PrimaryFailed(a) == ask[a].primary \in {"noindex", "error", "malformed"}

C2_AsClaimed ==
  \A a \in Asks :
    (ask[a].pc = "done" /\ PrimaryFailed(a)) =>
      /\ "fallback" \in Range(ask[a].calls)
      /\ ask[a].fault \notin {"fallback", "prompt"}
      /\ ask[a].retrieved >= 0

\* C3: the calls of one ask request are a prefix of
\* findOne, embed, primary, [fallback,] generate: the primary search once and
\* first, the fallback at most once and only after a failed primary, and a
\* failed embedding or generation call ends the request with status 500.
C3_OneShotFallback ==
  \A a \in Asks :
    /\ \/ IsPrefix(ask[a].calls, <<"findOne", "embed", "primary", "generate">>)
       \/ IsPrefix(ask[a].calls, <<"findOne", "embed", "primary", "fallback", "generate">>)
    /\ "fallback" \in Range(ask[a].calls) => ask[a].primary \in {"noindex", "error"}
    /\ ask[a].pc = "primary" => ask[a].calls = <<"findOne", "embed">>
    /\ ask[a].pc = "fallback" => ask[a].calls = <<"findOne", "embed", "primary">>
    /\ ask[a].retrieved >= 0 => "primary" \in Range(ask[a].calls)
    /\ ask[a].fault = "embed" =>
         /\ ask[a].pc = "done" /\ ask[a].status = 500
         /\ ask[a].calls = <<"findOne", "embed">>
    /\ ask[a].fault = "generate" =>
         /\ ask[a].pc = "done" /\ ask[a].status = 500 /\ ask[a].answer = ""
         /\ ask[a].calls[Len(ask[a].calls)] = "generate"

\* a request served by the fallback after the primary search threw
C3_Witness ==
  \E a \in Asks :
    /\ ask[a].status = 200
    /\ ask[a].calls = <<"findOne", "embed", "primary", "fallback", "generate">>

\* C4: when the search of an ask request yields zero chunks the response is
\* the fixed answer with no sources and generateContent is not called; a
\* generated answer is only returned when chunks were retrieved.
C4_EmptyShortCircuit ==
  \A a \in Asks :
    /\ ask[a].retrieved = 0 =>
         /\ ask[a].pc = "done" /\ ask[a].status = 200
         /\ ask[a].answer = NoInformation
         /\ ask[a].sources = <<>>
         /\ "generate" \notin Range(ask[a].calls)
    /\ ask[a].answer = "generated" => ask[a].retrieved > 0

\* the fallback found no record of an existing document
C4_Witness ==
  \E a \in Asks :
    /\ ask[a].retrieved = 0
    /\ ask[a].document = "record"
    /\ "fallback" \in Range(ask[a].calls)

\* C5: an ask request with a docId and a question whose docId has no
\* DocumentRecord ends with status 404, after the lookup alone: no
\* embedding, search or generation call, no answer; a request with a missing
\* docId or question ends with 400 instead.
C5_NotFound ==
  \A a \in Asks :
    /\ ask[a].document = "null" =>
         /\ ask[a].pc = "done" /\ ask[a].status = 404
         /\ ask[a].calls = <<"findOne">>
         /\ ask[a].answer = "" /\ ask[a].sources = <<>>
    /\ ask[a].status = 404 =>
         /\ ~MissingInput(ask[a].docId, ask[a].question)
         /\ ask[a].document = "null"
    /\ (ask[a].pc = "done" /\ MissingInput(ask[a].docId, ask[a].question)) =>
         ask[a].status = 400 /\ ask[a].calls = <<>>

\* an ask for a docId without a record while another document is stored
C5_Witness ==
  \E a \in Asks :
    /\ ask[a].status = 404
    /\ ask[a].docId \in DocIds
    /\ DOMAIN documentsCollection # {}

\* C6: no ask search reads the collections while the DocumentRecord of its
\* docId exists and not all of that document's vector records are stored.
C6_AsClaimed == \A a \in Asks : ~ask[a].torn

\* C7: after a document has been deleted, a search for its docId answers the
\* empty sequence, without an error: in the VectorStore once deleteDocument
\* removed it, and in the collections once the delete route has finished.
C7_AsClaimed ==
  [][/\ (vsCall'.op = "search" /\ vsCall'.docId \in vsDeleted') =>
          (~vsCall'.threw /\ vsCall'.results = <<>>)
     /\ \A d \in Deletes :
          (del[d].pc = "deleteOne" /\ del'[d].status = 200) =>
            \A i \in 1..Len(vectorCollection') :
              vectorCollection'[i].docId # del[d].docId]_vars

\* C8: once an upload has ended in failure, no DocumentRecord and no vector
\* record written by it is stored.
C8_AsClaimed ==
  \A u \in Uploads :
    (up[u].pc = "done" /\ up[u].status # 200) =>
      /\ \A id \in DOMAIN documentsCollection : documentsCollection[id].writer # u
      /\ \A i \in 1..Len(vectorCollection) : vectorCollection[i].writer # u

\* C9: two uploads that both succeeded have different docIds, and the vector
\* records under a docId were written by the upload that wrote its
\* DocumentRecord.
C9_AsClaimed ==
  /\ \A u, v \in Uploads :
       (u # v /\ up[u].status = 200 /\ up[v].status = 200) => up[u].docId # up[v].docId
  /\ \A i \in 1..Len(vectorCollection) :
       vectorCollection[i].docId \in DOMAIN documentsCollection =>
         documentsCollection[vectorCollection[i].docId].writer = vectorCollection[i].writer

\* C10: addDocuments with chunk and vector lists of different lengths throws
\* and leaves the whole map as it was.
C10_MismatchWritesNothing ==
  [][(vsCall'.op = "addDocuments" /\ vsCall'.nChunks # vsCall'.nEmbeddings) =>
       (vsCall'.threw /\ store' = store)]_vars

\* a mismatched call on a docId that has chunks stored, another document
\* being stored too
C10_Witness ==
  /\ vsCall.op = "addDocuments" /\ vsCall.threw
  /\ vsCall.nChunks # vsCall.nEmbeddings
  /\ vsCall.docId \in DOMAIN store
  /\ Len(store[vsCall.docId]) > 0
  /\ DOMAIN store # {vsCall.docId}

\* ------------------------------------------------ the chunker, SpecChunk
\* the chunks of a returned call of splitIntoChunksWithMetadata
Returned == chk.pc = "returned"

\* C11: the chunkIndex values of the chunks returned for a document are
\* 0, 1, 2, ... in output order: they start at 0, have no gap, and do not
\* start again at a page boundary.
C11_GlobalChunkIndex ==
  Returned => \A i \in 1..Len(chk.chunks) : chk.chunks[i].chunkIndex = i - 1

\* three chunks or more, the numbering running on over a page boundary
C11_Witness ==
  /\ Returned
  /\ Len(chk.chunks) >= 3
  /\ \E i \in 2..Len(chk.chunks) :
       /\ chk.chunks[i].metadata.page # chk.chunks[i - 1].metadata.page
       /\ chk.chunks[i].chunkIndex = i - 1

\* the page a chunk says it was cut from
PageOf(c) == chk.pages[c.metadata.page]

\* C12: for every chunk, metadata.startChar <= metadata.endChar and both lie
\* within [startChar, endChar] of the page the chunk was cut from, chunks
\* seeded with overlap text included.
C12_AsClaimed ==
  Returned =>
    \A i \in 1..Len(chk.chunks) :
      LET c == chk.chunks[i]
      IN  /\ c.metadata.startChar <= c.metadata.endChar
          /\ PageOf(c).startChar <= c.metadata.startChar
          /\ c.metadata.endChar <= PageOf(c).endChar

\* C13: the text of every chunk is non-empty and trimmed, and
\* metadata.chunkLength is the length of that text, also when a paragraph
\* begins or ends with whitespace.
C13_AsClaimed ==
  Returned =>
    \A i \in 1..Len(chk.chunks) :
      LET c == chk.chunks[i]
      IN  /\ Len(c.text) > 0
          /\ Trim(c.text) = c.text
          /\ c.metadata.chunkLength = Len(c.text)

\* the paragraph numbers a chunk is attributed by its metadata: from
\* paragraphNumber to the last number its paragraphRange names
ChunkParagraphs(c) ==
  LET first == c.metadata.paragraphNumber
  IN  UNION {first..last : last \in
               {b \in first..MaxTextLen :
                  c.metadata.paragraphRange = paragraphRange(first, b)}}

\* the positions in the output of the chunks of a page attributed paragraph k
Holders(page, k) ==
  {i \in 1..Len(chk.chunks) :
     /\ chk.chunks[i].metadata.page = page.pageNumber
     /\ k \in ChunkParagraphs(chk.chunks[i])}

\* s occurs in t as a run of consecutive characters
Contains(t, s) == IndexOf(t, s) >= 0

\* C14: a paragraph longer than chunkSize is never split and becomes its own
\* chunk: exactly one chunk holds the whole paragraph, and that chunk holds
\* the text of no other paragraph, whatever precedes or follows it.
C14_AsClaimed ==
  Returned =>
    \A p \in 1..Len(chk.pages) :
      LET paragraphs == Paragraphs(chk.pages[p].text)
      IN  \A k \in 1..Len(paragraphs) :
            Len(paragraphs[k]) > chk.chunkSize =>
              /\ Cardinality(Holders(chk.pages[p], k)) = 1
              /\ \A i \in Holders(chk.pages[p], k) :
                   chk.chunks[i].text = Trim(paragraphs[k])

\* paragraphs first..last of a page as the buffer holds them
RECURSIVE Join(_, _, _)
Join(paragraphs, first, last) ==
  IF first = last THEN paragraphs[first]
  ELSE Join(paragraphs, first, last - 1) \o <<NL, NL>> \o paragraphs[last]

IsSuffix(s, t) == Len(s) <= Len(t) /\ SubSeq(t, Len(t) - Len(s) + 1, Len(t)) = s

\* the positions in the output of the chunks of a page
ChunksOfPage(page) ==
  {i \in 1..Len(chk.chunks) : chk.chunks[i].metadata.page = page.pageNumber}

\* C15: metadata.paragraphNumber is the 1-based number of the first paragraph
\* put into the chunk (the first chunk of a page starts at paragraph 1, each
\* next one where the previous one stopped, and the text of the chunk ends
\* with those paragraphs); metadata.paragraphRange is that number when one
\* paragraph was put into the chunk and the string "first-last" otherwise.
\* A page whose paragraphs, joined, fit within chunkSize gives exactly one
\* chunk, whose range spans all of them.
C15_ParagraphRange ==
  Returned =>
    \A p \in 1..Len(chk.pages) :
      LET paragraphs == Paragraphs(chk.pages[p].text)
          N == Len(paragraphs)
          own == ChunksOfPage(chk.pages[p])
          spans(first, last) ==
            IF first = last
            THEN [type |-> "number", value |-> DecimalString(first)]
            ELSE [type |-> "string",
                  value |-> DecimalString(first) \o "-" \o DecimalString(last)]
      IN  /\ \A i \in own :
               LET c == chk.chunks[i]
                   first == c.metadata.paragraphNumber
                   last == IF i + 1 \in own
                           THEN chk.chunks[i + 1].metadata.paragraphNumber - 1
                           ELSE N
               IN  /\ 1 <= first /\ first <= last /\ last <= N
                   /\ (i - 1 \notin own) => first = 1
                   /\ IsSuffix(Trim(Join(paragraphs, first, last)), c.text)
                   /\ c.metadata.paragraphRange = spans(first, last)
          /\ (N >= 1 /\ Len(Join(paragraphs, 1, N)) <= chk.chunkSize) =>
               /\ Cardinality(own) = 1
               /\ \A i \in own :
                    /\ chk.chunks[i].metadata.paragraphNumber = 1
                    /\ chk.chunks[i].metadata.paragraphRange = spans(1, N)

\* two short paragraphs that fit: one chunk with the range "1-2"
C15_Witness ==
  /\ Returned
  /\ Len(chk.pages) = 1
  /\ Len(Paragraphs(chk.pages[1].text)) = 2
  /\ Len(Join(Paragraphs(chk.pages[1].text), 1, 2)) <= chk.chunkSize
  /\ Len(chk.chunks) = 1
  /\ chk.chunks[1].metadata.paragraphRange = [type |-> "string", value |-> "1-2"]

\* C16: chunking is exhaustive and order-preserving. Every non-blank
\* paragraph of every page is, trimmed, whole in the text of a chunk of that
\* page attributed to it; the chunks come in page order and, within a page,
\* in paragraph order; a page of blank text, and an empty list of pages,
\* give no chunk.
C16_Exhaustive ==
  Returned =>
    /\ \A p \in 1..Len(chk.pages) :
         LET paragraphs == Paragraphs(chk.pages[p].text)
         IN  /\ \A k \in 1..Len(paragraphs) :
                  \E i \in Holders(chk.pages[p], k) :
                    Contains(chk.chunks[i].text, Trim(paragraphs[k]))
             /\ Len(paragraphs) = 0 => ChunksOfPage(chk.pages[p]) = {}
    /\ \A i, j \in 1..Len(chk.chunks) :
         i < j =>
           /\ chk.chunks[i].metadata.page <= chk.chunks[j].metadata.page
           /\ chk.chunks[i].metadata.page = chk.chunks[j].metadata.page =>
                chk.chunks[i].metadata.paragraphNumber
                  < chk.chunks[j].metadata.paragraphNumber
    /\ \A i \in 1..Len(chk.chunks) :
         chk.chunks[i].metadata.page \in 1..Len(chk.pages)
    /\ Len(chk.pages) = 0 => chk.chunks = <<>>

\* a blank page between two pages that both give chunks
C16_Witness ==
  /\ Returned
  /\ \E p \in 2..(Len(chk.pages) - 1) :
       /\ Len(chk.pages[p].text) > 0
       /\ Len(Paragraphs(chk.pages[p].text)) = 0
       /\ ChunksOfPage(chk.pages[p - 1]) # {}
       /\ ChunksOfPage(chk.pages[p + 1]) # {}

\* ------------------------------------------ generateEmbeddings, SpecEmbed
\* C17: a call of generateEmbeddings in which no embedding request fails
\* returns a list as long as texts whose i-th vector is the embedding of the
\* i-th text, for the empty list and for lists of more than one batch too.
C17_AsClaimed ==
  (emb.pc = "done" /\ emb.failed = 0) =>
    /\ emb.result.ok
    /\ Len(emb.result.values) = Len(emb.texts)
    /\ \A k \in 1..Len(emb.texts) : emb.result.values[k] = EmbedContent(emb.texts[k])

\* the last position of the batch that position k belongs to
BatchEnd(k) == Min(Len(emb.texts), ((k - 1) \div batchSize) * batchSize + batchSize)

\* C18: once an embedding request has failed the call is over: it fails with
\* the error wrapped as an embedding failure, returns no partial list, and
\* no request of a batch after the failing one has been issued.
C18_FailsWhole ==
  emb.failed # 0 =>
    /\ emb.pc = "done"
    /\ ~emb.result.ok
    /\ emb.result.values = <<>>
    /\ emb.result.error = Wrapped("request rejected")
    /\ emb.issued = 1..BatchEnd(emb.failed)

\* a request of the second of three batches failed, after the first batch
\* had been embedded
C18_Witness ==
  /\ emb.pc = "done"
  /\ emb.failed > batchSize
  /\ BatchEnd(emb.failed) < Len(emb.texts)
  /\ Len(emb.allEmbeddings) = batchSize

\* -------------------------------- cosineSimilarity and the fallback, SpecRank
ZeroNorm(vec) == SumProd(vec, vec, 1) = 0

\* C19: cosineSimilarity throws, instead of returning a score, whenever one
\* of its arguments has norm zero, as it does when their lengths differ; so
\* the fallback never ranks a chunk by an undefined score.
C19_AsClaimed ==
  /\ rank.score.called =>
       ((\/ Len(rank.score.vecA) # Len(rank.score.vecB)
         \/ ZeroNorm(rank.score.vecA)
         \/ ZeroNorm(rank.score.vecB)) => rank.score.value.threw)
  /\ \A i \in 1..Len(rank.relevantChunks) : ~IsNaN(rank.relevantChunks[i].score)

\* the records the fallback loads: those of the docId, the first findLimit
Loaded == Slice(VectorsOf(rank.docId), findLimit)

\* the cosine similarity of the question to the record at position j of Loaded
ScoreOf(j) == cosineSimilarity(rank.questionEmbedding, Loaded[j].embedding)

\* C20: the fallback returns, of the records loaded for the docId (at most
\* the first 50 in storage order), the topK with the highest cosine
\* similarity to the question, in descending order of score, records of
\* equal score in storage order.
C20_AsClaimed ==
  (rank.pc = "done" /\ ~rank.score.called /\ ~rank.threw) =>
    LET found == rank.relevantChunks
        \* the text of a record is its position in storage order
        chosen == {found[i].text : i \in 1..Len(found)}
    IN  /\ Len(found) = Min(topK, Len(Loaded))
        /\ Cardinality(chosen) = Len(found)
        /\ chosen \subseteq 1..Len(Loaded)
        /\ \A i \in 1..Len(found) :
             /\ found[i].docId = rank.docId
             /\ found[i].score = ScoreOf(found[i].text)
             /\ ~IsNaN(found[i].score)
        /\ \A i, k \in 1..Len(found) :
             i < k =>
               /\ ~ScoreLess(found[i].score, found[k].score)
               /\ ~ScoreLess(found[k].score, found[i].score) =>
                    found[i].text < found[k].text
        /\ \A j \in (1..Len(Loaded)) \ chosen :
             \A i \in 1..Len(found) :
               /\ ~IsNaN(ScoreOf(j))
               /\ ~ScoreLess(found[i].score, ScoreOf(j))
               /\ ~ScoreLess(ScoreOf(j), found[i].score) => found[i].text < j

\* ------------------------------------------- overlap seeding, SpecChunk
\* the piece of text that starts at position i and runs to the next separator
PieceAt(text, i) ==
  LET stops == {j \in i..Len(text) : InSeparator(text, j)}
  IN  SubSeq(text, i, IF stops = {} THEN Len(text)
                      ELSE (CHOOSE j \in stops : \A k \in stops : j <= k) - 1)

\* the 0-based offsets in the page text of its paragraphs, in order
ParagraphOffsets(text) ==
  LET starts == {i \in 1..Len(text) :
                   /\ ~InSeparator(text, i)
                   /\ i = 1 \/ InSeparator(text, i - 1)
                   /\ Len(Trim(PieceAt(text, i))) > 0}
  IN  [k \in 1..Cardinality(starts) |->
         (CHOOSE i \in starts : Cardinality({m \in starts : m < i}) = k - 1) - 1]

\* C21: when a chunk of buffer length L and start offset s is emitted in the
\* middle of a page, the next chunk's buffer is, for L > overlap, the last
\* overlap characters of that buffer, a separator and the new paragraph(s),
\* and its startChar is s + L - overlap; for L <= overlap it is the new
\* paragraph(s) alone, and its startChar is the offset of the new paragraph
\* in the page.
C21_AsClaimed ==
  Returned =>
    \A p \in 1..Len(chk.pages) :
      LET page == chk.pages[p]
          paragraphs == Paragraphs(page.text)
          offsets == ParagraphOffsets(page.text)
          own == ChunksOfPage(page)
      IN  \A i \in own :
            (i + 1 \in own) =>
              LET L == chk.chunks[i].metadata.chunkLength
                  s == chk.chunks[i].metadata.startChar
                  next == chk.chunks[i + 1]
                  first == next.metadata.paragraphNumber
                  last == IF i + 2 \in own
                          THEN chk.chunks[i + 2].metadata.paragraphNumber - 1
                          ELSE Len(paragraphs)
                  added == Len(Join(paragraphs, first, last))
              IN  IF L > chk.overlap
                  THEN /\ next.metadata.startChar = s + L - chk.overlap
                       /\ next.metadata.chunkLength = chk.overlap + 2 + added
                  ELSE /\ next.metadata.startChar = page.startChar + offsets[first]
                       /\ next.metadata.chunkLength = added

\* ---------------------------------------------- batch pacing, SpecEmbed
\* C22: the batches of generateEmbeddings are processed strictly one after
\* another: requests are issued only when no request is in flight, every
\* earlier batch has been issued and answered and has been followed by its
\* pacing delay, and they are the requests of the next batch alone; so at
\* most one batch of batchSize requests is in flight at any time.
C22_OneBatchInFlight ==
  /\ [](emb.pending <= batchSize)
  /\ [][(emb'.issued # emb.issued) =>
          /\ emb.pending = 0
          /\ emb.issued = 1..emb.i
          /\ emb.delays * batchSize = emb.i
          /\ emb'.issued \ emb.issued = BatchAt(emb)
          /\ Cardinality(BatchAt(emb)) <= batchSize]_vars

\* several requests of the second batch are in flight together, after the
\* first batch was answered and the delay has elapsed
C22_Witness ==
  /\ emb.pc = "await"
  /\ emb.delays = 1
  /\ emb.i = batchSize
  /\ emb.pending > 1
  /\ emb.pending < batchSize

\* ------------------------------------------ paragraph ranges, SpecChunk
\* the last paragraph number the range of a chunk names
RangeEnd(c) ==
  CHOOSE k \in ChunkParagraphs(c) : \A m \in ChunkParagraphs(c) : m <= k

\* C23: on a page with N >= 1 paragraphs the paragraph ranges of the page's
\* chunks, in output order, partition 1..N: the first range starts at 1,
\* each next one starts one past the end of the one before, the last one
\* ends at N, and so every paragraph number is in the range of exactly one
\* chunk, overlap text or not.
C23_RangesPartition ==
  Returned =>
    \A p \in 1..Len(chk.pages) :
      LET page == chk.pages[p]
          N == Len(Paragraphs(page.text))
          own == ChunksOfPage(page)
      IN  N >= 1 =>
            /\ own # {}
            /\ \A i \in own :
                 /\ ChunkParagraphs(chk.chunks[i]) # {}
                 /\ IF i - 1 \in own
                    THEN chk.chunks[i].metadata.paragraphNumber
                           = RangeEnd(chk.chunks[i - 1]) + 1
                    ELSE chk.chunks[i].metadata.paragraphNumber = 1
                 /\ (i + 1 \notin own) => RangeEnd(chk.chunks[i]) = N
            /\ \A k \in 1..N : Cardinality(Holders(page, k)) = 1

\* a chunk of two paragraphs, then a chunk seeded with its overlap text
C23_Witness ==
  /\ Returned
  /\ chk.overlap > 0
  /\ \E i \in 1..(Len(chk.chunks) - 1) :
       /\ chk.chunks[i].metadata.page = chk.chunks[i + 1].metadata.page
       /\ chk.chunks[i].metadata.paragraphRange.type = "string"
       /\ chk.chunks[i].metadata.chunkLength > chk.overlap
       /\ chk.chunks[i + 1].metadata.paragraphNumber = 3
====
